---- MODULE Spec2Model ----
(***************************************************************************)
(* Model of graphing_returns_with_bands.py: the mean-reversion trade       *)
(* simulator (track_trades), the two portfolio valuators                   *)
(* (calculate_portfolio_value_with_rebalancing / _no_rebalancing) as       *)
(* called from index_compiler, and the band estimator                      *)
(* (add_ewma_bollinger_bands) that links them.                             *)
(*                                                                         *)
(* Python floats are modelled as exact numbers of the field Q(sqrt 2): a   *)
(* rational is the pair <<num, den>> in lowest terms with den > 0, and     *)
(* (n + m * sqrt 2) / d with m # 0 is the triple <<n, d, m>>; the float    *)
(* NaN (an undefined rolling std / band) is the pair <<0, 0>>.  Python     *)
(* index k of a list or column is position k + 1 of the sequence that      *)
(* models it.                                                              *)
(***************************************************************************)
EXTENDS Integers, Sequences, FiniteSets, TLC

----------------------------------------------------------------------------
(* Bounds of the model *)

\* number of rows (dates) of the table handed to track_trades
MaxLen == 5
\* number of rows (dates) of the price table handed to the valuators
MaxDates == 3
\* largest rebalance_frequency tried
MaxFreq == 2
\* number of rows (dates) of the price table handed to the pipeline
MaxPipelineDates == 4

----------------------------------------------------------------------------
(* Float arithmetic, exact in the field Q(sqrt 2), with NaN *)

RECURSIVE GCD(_, _)
GCD(a, b) == IF b = 0 THEN a ELSE GCD(b, a % b)

Abs(a) == IF a < 0 THEN -a ELSE a

NaN == <<0, 0>>

IsNaN(x) == x[2] = 0

\* the float of the integer n
R(n) == <<n, 1>>

\* the coefficient m of sqrt 2 in (n + m * sqrt 2) / d; a rational has none
Root2Part(x) == IF Len(x) = 3 THEN x[3] ELSE 0

\* (n + m * sqrt 2) / d in lowest terms with a positive denominator, as the
\* pair <<n, d>> when m = 0; x/0 is not a number
Norm2(n, m, d) ==
    IF d = 0 THEN NaN
    ELSE LET g == GCD(GCD(Abs(n), Abs(m)), Abs(d))
             s == IF d < 0 THEN -1 ELSE 1
         IN  IF m = 0 THEN <<(s * n) \div g, (s * d) \div g>>
             ELSE <<(s * n) \div g, (s * d) \div g, (s * m) \div g>>

\* n/d in lowest terms with a positive denominator; x/0 is not a number
Norm(n, d) ==
    IF d = 0 THEN NaN
    ELSE LET g == GCD(Abs(n), Abs(d))
             s == IF d < 0 THEN -1 ELSE 1
         IN  <<(s * n) \div g, (s * d) \div g>>

\* a/b > sqrt 2 for integers a, b > 0, by the continued fraction of sqrt 2
RECURSIVE GtRoot2(_, _)
GtRoot2(a, b) ==
    IF a \div b >= 2 THEN TRUE
    ELSE IF a \div b = 0 \/ a % b = 0 THEN FALSE
    ELSE ~GtRoot2(b - (a % b), a % b)

\* the sign of n + m * sqrt 2
Sign(n, m) ==
    IF m = 0 THEN (IF n > 0 THEN 1 ELSE IF n < 0 THEN -1 ELSE 0)
    ELSE IF n = 0 THEN (IF m > 0 THEN 1 ELSE -1)
    ELSE IF n > 0 /\ m > 0 THEN 1
    ELSE IF n < 0 /\ m < 0 THEN -1
    ELSE IF n > 0 THEN (IF GtRoot2(n, -m) THEN 1 ELSE -1)
    ELSE (IF GtRoot2(-n, m) THEN -1 ELSE 1)

\* x + y in Q(sqrt 2), over the least common denominator
Add2(x, y) ==
    LET g  == GCD(x[2], y[2])
        fx == y[2] \div g
        fy == x[2] \div g
    IN  Norm2(x[1] * fx + y[1] * fy,
              Root2Part(x) * fx + Root2Part(y) * fy,
              x[2] * fx)

Neg2(x) == IF Len(x) = 3 THEN <<-x[1], x[2], -x[3]>> ELSE <<-x[1], x[2]>>

\* x * y in Q(sqrt 2), after cancelling each numerator against the other
\* denominator
Mul2(x, y) ==
    LET gx == GCD(GCD(Abs(x[1]), Abs(Root2Part(x))), y[2])
        gy == GCD(GCD(Abs(y[1]), Abs(Root2Part(y))), x[2])
        xn == x[1] \div gx
        xm == Root2Part(x) \div gx
        yn == y[1] \div gy
        ym == Root2Part(y) \div gy
    IN  Norm2(xn * yn + 2 * xm * ym, xn * ym + xm * yn,
              (x[2] \div gy) * (y[2] \div gx))

\* 1 / y = conj(y) / (y * conj(y)) in Q(sqrt 2)
Inverse2(y) ==
    LET my == Root2Part(y)
    IN  Norm2(y[1] * y[2], -(my * y[2]), y[1] * y[1] - 2 * my * my)

\* both operands are rationals
Rationals2(x, y) == Len(x) = 2 /\ Len(y) = 2

RAdd(x, y) == IF IsNaN(x) \/ IsNaN(y) THEN NaN
              ELSE IF Rationals2(x, y) /\ x[2] = y[2] THEN Norm(x[1] + y[1], x[2])
              ELSE Add2(x, y)

RSub(x, y) == IF IsNaN(x) \/ IsNaN(y) THEN NaN
              ELSE IF Rationals2(x, y) /\ x[2] = y[2] THEN Norm(x[1] - y[1], x[2])
              ELSE Add2(x, Neg2(y))

RMul(x, y) == IF IsNaN(x) \/ IsNaN(y) THEN NaN
              ELSE IF ~Rationals2(x, y) THEN Mul2(x, y)
              ELSE IF x[2] = 1 /\ y[2] = 1 THEN <<x[1] * y[1], 1>>
              ELSE LET gx == GCD(Abs(x[1]), y[2])
                       gy == GCD(Abs(y[1]), x[2])
                   IN  Norm((x[1] \div gx) * (y[1] \div gy),
                            (x[2] \div gy) * (y[2] \div gx))

\* a division by zero gives no number
RDiv(x, y) == IF IsNaN(x) \/ IsNaN(y) THEN NaN
              ELSE IF ~Rationals2(x, y) THEN Mul2(x, Inverse2(y))
              ELSE RMul(x, Norm(y[2], y[1]))

\* float comparisons: any comparison with NaN is False
RGt(x, y) ==
    /\ ~IsNaN(x) /\ ~IsNaN(y)
    /\ IF Rationals2(x, y) THEN x[1] * y[2] > y[1] * x[2]
       ELSE LET diff == Add2(x, Neg2(y)) IN Sign(diff[1], Root2Part(diff)) > 0

RLt(x, y) ==
    /\ ~IsNaN(x) /\ ~IsNaN(y)
    /\ IF Rationals2(x, y) THEN x[1] * y[2] < y[1] * x[2]
       ELSE LET diff == Add2(x, Neg2(y)) IN Sign(diff[1], Root2Part(diff)) < 0

\* the largest r in lo..hi with r * r <= k
RECURSIVE ISqrtIn(_, _, _)
ISqrtIn(k, lo, hi) ==
    IF lo >= hi THEN lo
    ELSE LET mid == (lo + hi + 1) \div 2
         IN  IF mid * mid <= k THEN ISqrtIn(k, mid, hi)
             ELSE ISqrtIn(k, lo, mid - 1)

ISqrt(k) == ISqrtIn(k, 0, IF k < 46340 THEN k ELSE 46340)

IsSquare(k) == ISqrt(k) * ISqrt(k) = k

\* the square root of a rational x >= 0 whose root lies in Q(sqrt 2):
\* r when x = r^2, and r * sqrt 2 when x = 2 * r^2
Sqrt(x) ==
    IF IsNaN(x) THEN NaN
    ELSE LET h == Norm(x[1], 2 * x[2])
         IN  CASE IsSquare(x[1]) /\ IsSquare(x[2]) ->
                      <<ISqrt(x[1]), ISqrt(x[2])>>
               [] IsSquare(h[1]) /\ IsSquare(h[2]) ->
                      Norm2(0, ISqrt(h[1]), ISqrt(h[2]))

----------------------------------------------------------------------------
(* State *)

VARIABLES
    \* track_trades
    df,                 \* rows of the value/band table read so far
    df_columns,         \* the column names of that table
    n,                  \* len(df)
    i,                  \* loop index of track_trades
    pc,                 \* "call" | "loop" | "done" | "idle"
    initial_investment,
    current_position,   \* "None" | "short" | "long"
    entry_price,
    units_traded,
    realized_balance,
    unrealized_pnl,
    trades_tally,
    trade_logs,         \* one record per date processed
    total_trade_pnl,    \* the column df['total_trade_pnl']
    position,           \* the column df['position']
    still_open_printed, \* whether "Position still open" was printed
    \* the valuators
    prices_df,          \* the price table: one row per date, column -> price
    columns,            \* df.columns
    weights_dict,       \* the weight map handed to index_compiler
    weights,            \* the weight map handed to the valuators
    rebalance_frequency,
    vpc,                \* "compile" | "norebal" | "rebal" | "done" |
                        \* "returned" | "ZeroDivisionError" | "idle"
    vi,                 \* loop index of the running valuator
    shares,             \* active share set of the rebalancing valuator
    portfolio_values,   \* values appended by the rebalancing valuator
    rebal_result,       \* "running" | "returned" | "KeyError"
    looked_up,          \* instruments looked up in a price row at a rebalance
    portfolio_values_nr, \* values appended by the no-rebalancing valuator
    \* add_ewma_bollinger_bands
    halflife_days,
    bands_df            \* the table it returns, one row per date

simvars == <<df, df_columns, n, i, pc, current_position, entry_price, units_traded,
             realized_balance, unrealized_pnl, trades_tally, trade_logs,
             total_trade_pnl, position, still_open_printed>>

valvars == <<prices_df, columns, weights_dict, weights, rebalance_frequency,
             vpc, vi, shares, portfolio_values, rebal_result, looked_up,
             portfolio_values_nr>>

estvars == <<halflife_days, bands_df>>

vars == <<simvars, valvars, estvars, initial_investment>>

\* element at Python index k
At(s, k) == s[k + 1]

----------------------------------------------------------------------------
(* add_ewma_bollinger_bands: the band columns *)

BollingerUpper(ewma, std_dev) == RAdd(ewma, RMul(R(2), std_dev))

BollingerLower(ewma, std_dev) == RSub(ewma, RMul(R(2), std_dev))

BandRow(value, ewma, std_dev) ==
    [portfolio_value |-> value, ewma |-> ewma,
     bollinger_upper |-> BollingerUpper(ewma, std_dev),
     bollinger_lower |-> BollingerLower(ewma, std_dev)]

\* the halflives for which 0.5 ^ (1 / halflife) and the deviation of a full
\* window lie in Q(sqrt 2), so that the table of bands is computed exactly
ExactHalflives == {1, 2}

\* the halflives tried
Halflives == ExactHalflives \cup {3}

\* ewm(halflife=h): alpha = 1 - exp(log(0.5) / h), and the weight of a sample
\* decays by old_wt_factor = 1 - alpha = 0.5 ^ (1 / h) per date
OldWtFactor(halflife) ==
    CASE halflife = 1 -> <<1, 2>>
      [] halflife = 2 -> <<0, 2, 1>>

Alpha(halflife) == RSub(R(1), OldWtFactor(halflife))

\* what ewm(adjust=False) would do with one more value: new_wt = alpha, and
\* old_wt is reset to 1
EwmStep_NoAdjust(prev, cur, halflife) ==
    LET old_wt == RMul(prev.old_wt, OldWtFactor(halflife))
        new_wt == Alpha(halflife)
    IN  [weighted |-> RDiv(RAdd(RMul(old_wt, prev.weighted), RMul(new_wt, cur)),
                           RAdd(old_wt, new_wt)),
         old_wt   |-> R(1)]

\* ewm(...).mean() with the default adjust=True, one more value: new_wt = 1,
\* and old_wt accumulates the weights
EwmStep(prev, cur, halflife) ==
    LET old_wt == RMul(prev.old_wt, OldWtFactor(halflife))
        new_wt == R(1)
    IN  [weighted |-> RDiv(RAdd(RMul(old_wt, prev.weighted), RMul(new_wt, cur)),
                           RAdd(old_wt, new_wt)),
         old_wt   |-> RAdd(old_wt, new_wt)]

\* the running state of the mean at index t: seeded by the first value
RECURSIVE EwmState(_, _, _)
EwmState(values, halflife, t) ==
    IF t = 0 THEN [weighted |-> At(values, 0), old_wt |-> R(1)]
    ELSE EwmStep(EwmState(values, halflife, t - 1), At(values, t), halflife)

\* line 82: df['portfolio_value'].ewm(halflife=halflife_days).mean(), at index t
Ewma(values, halflife, t) == EwmState(values, halflife, t).weighted

\* the sum of a sequence of floats
RECURSIVE SumSeq(_)
SumSeq(s) == IF s = <<>> THEN R(0) ELSE RAdd(s[1], SumSeq(Tail(s)))

\* the trailing window of at most `window` values that ends at index t
Window(values, t, window) ==
    SubSeq(values, IF t + 2 - window > 1 THEN t + 2 - window ELSE 1, t + 1)

\* rolling(window) without min_periods: min_periods = window
MinPeriods(window) == window

\* the variance of a population of the window, defined on any full window
RollingVar_Population(values, t, window) ==
    LET win  == Window(values, t, window)
        nobs == Len(win)
        mean == RDiv(SumSeq(win), R(nobs))
        ssqdm == SumSeq([k \in 1..nobs |->
                            RMul(RSub(win[k], mean), RSub(win[k], mean))])
    IN  IF nobs >= MinPeriods(window) THEN RDiv(ssqdm, R(nobs)) ELSE NaN

\* the sample variance with 0 in place of an undefined one
RollingVar_ZeroFilled(values, t, window) ==
    LET win  == Window(values, t, window)
        nobs == Len(win)
        mean == RDiv(SumSeq(win), R(nobs))
        ssqdm == SumSeq([k \in 1..nobs |->
                            RMul(RSub(win[k], mean), RSub(win[k], mean))])
    IN  IF nobs >= MinPeriods(window) /\ nobs > 1
          THEN RDiv(ssqdm, R(nobs - 1)) ELSE R(0)

\* rolling(window).var() with ddof = 1: the sample variance
\* ssqdm / (nobs - 1) of a window of min_periods values and more than one
RollingVar(values, t, window) ==
    LET win  == Window(values, t, window)
        nobs == Len(win)
        mean == RDiv(SumSeq(win), R(nobs))
        ssqdm == SumSeq([k \in 1..nobs |->
                            RMul(RSub(win[k], mean), RSub(win[k], mean))])
    IN  IF nobs >= MinPeriods(window) /\ nobs > 1
          THEN RDiv(ssqdm, R(nobs - 1)) ELSE NaN

\* line 85: df['portfolio_value'].rolling(window=halflife_days).std(), at index t
RollingStd(values, t, window) == Sqrt(RollingVar(values, t, window))

\* lines 79-90: the table add_ewma_bollinger_bands returns
AddEwmaBollingerBands(values, halflife) ==
    [k \in 1..Len(values) |->
        BandRow(values[k], Ewma(values, halflife, k - 1),
                RollingStd(values, k - 1, halflife))]

\* x has a square root in Q(sqrt 2)
HasExactRoot(x) ==
    \/ IsSquare(x[1]) /\ IsSquare(x[2])
    \/ IsSquare(Norm(x[1], 2 * x[2])[1]) /\ IsSquare(Norm(x[1], 2 * x[2])[2])

RMin(x, y) == IF RLt(y, x) THEN y ELSE x

RMax(x, y) == IF RGt(y, x) THEN y ELSE x

RECURSIVE SeqMin(_)
SeqMin(s) == IF Len(s) = 1 THEN s[1] ELSE RMin(s[1], SeqMin(Tail(s)))

RECURSIVE SeqMax(_)
SeqMax(s) == IF Len(s) = 1 THEN s[1] ELSE RMax(s[1], SeqMax(Tail(s)))

\* Outside ExactHalflives the mean and the deviation are irrational numbers
\* outside Q(sqrt 2).  Whether they are defined is computed as above; a
\* defined value is replaced by bounds of it.  The mean at index t is a
\* weighted average of values[0..t] with positive weights: it lies between
\* their least and their greatest, and track_trades only compares it with
\* values[t], so it ranges over the least, values[t] and the greatest.
EwmaBounds(values, t) ==
    LET so_far == SubSeq(values, 1, t + 1)
    IN  {SeqMin(so_far), At(values, t), SeqMax(so_far)}

\* the deviation is the square root of the variance: exact when the root is
\* in the field, else rounded down to an integer
StdBounds(values, t, window) ==
    LET var == RollingVar(values, t, window)
    IN  IF IsNaN(var) \/ HasExactRoot(var) THEN {Sqrt(var)}
        ELSE {R(ISqrt(var[1] \div var[2]))}

\* the rows within the bounds at position k of the table
BoundedRows(values, k, halflife) ==
    {BandRow(values[k], e, sd) : e \in EwmaBounds(values, k - 1),
                                 sd \in StdBounds(values, k - 1, halflife)}

\* the tables of the first len rows within the bounds
RECURSIVE BoundedTables(_, _, _)
BoundedTables(values, halflife, len) ==
    IF len = 0 THEN {<<>>}
    ELSE {Append(table, row) : table \in BoundedTables(values, halflife, len - 1),
                               row \in BoundedRows(values, len, halflife)}

\* the tables add_ewma_bollinger_bands may return: the one it computes when
\* the halflife is exact, else the tables within the bounds
BandTables(values, halflife) ==
    IF halflife \in ExactHalflives
      THEN {AddEwmaBollingerBands(values, halflife)}
      ELSE BoundedTables(values, halflife, Len(values))

\* inputs: the investments, portfolio values, ewma values and rolling stds tried
Investments == {R(1000), R(1600)}

FirstValues == {R(100)}

Values == {R(95), R(130), R(160)}

Ewmas == {R(120)}

StdDevs == {NaN, R(10)}

\* the first row: the ewm mean of one value is the value, the std of one value
\* is NaN; and, for a table built otherwise, a first row that breaches its bands
FirstRows == {BandRow(v, v, NaN) : v \in FirstValues}
                 \cup {BandRow(R(160), R(120), R(10))}

Rows == {BandRow(v, e, s) : v \in Values, e \in Ewmas, s \in StdDevs}

----------------------------------------------------------------------------
(* track_trades *)

UnrealizedPnl(pos, balance, entry, price) ==
    IF pos = "short" THEN RDiv(RMul(balance, RSub(entry, price)), entry)
    ELSE IF pos = "long" THEN RDiv(RMul(balance, RSub(price, entry)), entry)
    ELSE R(0)

ShortEntryCond_NoFlatCheck(pos, price, upper) == RGt(price, upper)

ShortEntryCond(pos, price, upper) == pos = "None" /\ RGt(price, upper)

LongEntryCond(pos, price, lower) == pos = "None" /\ RLt(price, lower)

ShortExitCond(pos, price, ewma) == pos = "short" /\ RLt(price, ewma)

LongExitCond(pos, price, ewma) == pos = "long" /\ RGt(price, ewma)

\* the if / elif chain of the loop body: the branch taken
Branch(pos, row) ==
    IF ShortEntryCond(pos, row.portfolio_value, row.bollinger_upper) THEN "short_entry"
    ELSE IF LongEntryCond(pos, row.portfolio_value, row.bollinger_lower) THEN "long_entry"
    ELSE IF ShortExitCond(pos, row.portfolio_value, row.ewma) THEN "short_exit"
    ELSE IF LongExitCond(pos, row.portfolio_value, row.ewma) THEN "long_exit"
    ELSE "neither"

UnitsTraded_InitialInvestment(balance, entry) == RDiv(initial_investment, entry)

UnitsTraded(balance, entry) == RDiv(balance, entry)

ShortPnl_Reversed(units, entry, price) == RMul(units, RSub(price, entry))

ShortPnl(units, entry, price) == RMul(units, RSub(entry, price))

LongPnl(units, entry, price) == RMul(units, RSub(price, entry))

TallyAfter_CountsEntries(tally, event) ==
    IF event = "neither" THEN tally ELSE tally + 1

TallyAfter(tally, event) ==
    IF event \in {"short_exit", "long_exit"} THEN tally + 1 ELSE tally

PositionAfter(pos, event) ==
    CASE event = "short_entry" -> "short"
      [] event = "long_entry" -> "long"
      [] event \in {"short_exit", "long_exit"} -> "None"
      [] OTHER -> pos

\* the snapshot first appended to trade_logs at every index
NeitherSnapshot_NoUnrealized(carried, unrealized) == carried

NeitherSnapshot(carried, unrealized) == RAdd(carried, unrealized)

\* the "Position still open" test after the loop
StillOpenTest(pos) == pos = "Open"

EntryPriceAfter_Always(entry, price, event) == price

\* entry_price is assigned in the two entry branches only
EntryPriceAfter(entry, price, event) ==
    IF event \in {"short_entry", "long_entry"} THEN price ELSE entry

InputColumns == {"portfolio_value", "ewma", "bollinger_upper", "bollinger_lower"}

\* the columns track_trades writes into the table it is handed
AddedColumns == {"trade_pnl", "total_trade_pnl", "position"}

FirstRecord_Evaluated(row, investment) ==
    [date |-> 0, price |-> row.portfolio_value, type |-> Branch("None", row),
     pnl |-> investment]

\* the record of index 0
FirstRecord(row, investment) ==
    [date |-> 0, price |-> row.portfolio_value, type |-> "neither",
     pnl |-> investment]

\* the locals of track_trades while it is not yet running
TrackTradesNotCalled ==
    /\ i = 0
    /\ current_position = "None"
    /\ entry_price = R(0)
    /\ units_traded = NaN
    /\ realized_balance = R(0)
    /\ unrealized_pnl = R(0)
    /\ trades_tally = 0
    /\ trade_logs = <<>>
    /\ total_trade_pnl = <<>>
    /\ position = <<>>
    /\ still_open_printed = FALSE

\* the arguments of a call of track_trades
TrackTradesInput ==
    /\ n \in 1..MaxLen
    /\ initial_investment \in Investments
    /\ \E row \in FirstRows : df = <<row>>
    /\ df_columns = InputColumns
    /\ pc = "call"
    /\ TrackTradesNotCalled

\* lines 265-279: the locals, the three added columns and the record of index 0
TrackTradesCall ==
    /\ pc = "call"
    /\ pc' = "loop"
    /\ current_position' = "None"
    /\ entry_price' = R(0)
    /\ units_traded' = NaN    \* not yet bound
    /\ realized_balance' = initial_investment
    /\ unrealized_pnl' = R(0)
    /\ trades_tally' = 0
    /\ df_columns' = df_columns \cup AddedColumns
    /\ total_trade_pnl' = <<initial_investment>>
    /\ position' = <<"None">>
    /\ trade_logs' = <<FirstRecord(At(df, 0), initial_investment)>>
    /\ i' = 1
    /\ UNCHANGED <<df, n, still_open_printed, initial_investment>>

\* lines 280-345: one iteration of the loop, on the row of index i
TrackTradesStep(row) ==
    /\  LET price   == row.portfolio_value
             carried == At(total_trade_pnl, i - 1)
             unreal  == UnrealizedPnl(current_position, realized_balance,
                                      entry_price, price)
             first   == [date |-> i, price |-> price, type |-> "neither",
                         pnl |-> NeitherSnapshot(carried, unreal)]
             event   == Branch(current_position, row)
             isEntry == event \in {"short_entry", "long_entry"}
             isExit  == event \in {"short_exit", "long_exit"}
             pnl     == IF event = "short_exit"
                          THEN ShortPnl(units_traded, entry_price, price)
                        ELSE IF event = "long_exit"
                          THEN LongPnl(units_traded, entry_price, price)
                        ELSE R(0)
             total   == IF isExit THEN RAdd(carried, pnl) ELSE carried
         IN  /\ df' = Append(df, row)
             /\ unrealized_pnl' = unreal
             /\ current_position' = PositionAfter(current_position, event)
             /\ entry_price' = EntryPriceAfter(entry_price, price, event)
             /\ units_traded' = IF isEntry THEN UnitsTraded(realized_balance, price)
                                ELSE units_traded
             /\ realized_balance' = IF isExit THEN RAdd(realized_balance, pnl)
                                    ELSE realized_balance
             /\ total_trade_pnl' = Append(total_trade_pnl, total)
             /\ position' = Append(position, IF event = "short_entry" THEN "short"
                                             ELSE IF event = "long_entry" THEN "long"
                                             ELSE "None")
             /\ trades_tally' = TallyAfter(trades_tally, event)
             /\ trade_logs' = Append(trade_logs,
                    IF isEntry THEN [first EXCEPT !.type = event]
                    ELSE IF isExit THEN [first EXCEPT !.type = event, !.pnl = total]
                    ELSE first)
    /\ i' = i + 1
    /\ UNCHANGED <<df_columns, n, pc, still_open_printed, initial_investment>>

\* an iteration on a table whose rows are any of Rows
TrackTradesIteration ==
    /\ pc = "loop"
    /\ i < n
    /\ bands_df = <<>>
    /\ \E row \in Rows : TrackTradesStep(row)

\* lines 347-355: after the loop
TrackTradesReturn ==
    /\ pc = "loop"
    /\ i >= n
    /\ pc' = "done"
    /\ still_open_printed' = StillOpenTest(current_position)
    /\ UNCHANGED <<df, df_columns, n, i, current_position, entry_price,
                   units_traded, realized_balance, unrealized_pnl, trades_tally,
                   trade_logs, total_trade_pnl, position, initial_investment>>

\* the valuators are not running
ValuatorsIdle ==
    /\ prices_df = <<>>
    /\ columns = {}
    /\ weights_dict = <<>>
    /\ weights = <<>>
    /\ rebalance_frequency = 0
    /\ vpc = "idle"
    /\ vi = 0
    /\ shares = <<>>
    /\ portfolio_values = <<>>
    /\ rebal_result = "running"
    /\ looked_up = {}
    /\ portfolio_values_nr = <<>>

\* add_ewma_bollinger_bands is not running
EstimatorIdle ==
    /\ halflife_days = 0
    /\ bands_df = <<>>

Init == TrackTradesInput /\ ValuatorsIdle /\ EstimatorIdle

Next ==
    \/ TrackTradesCall /\ UNCHANGED <<valvars, estvars>>
    \/ TrackTradesIteration /\ UNCHANGED <<valvars, estvars>>
    \/ TrackTradesReturn /\ UNCHANGED <<valvars, estvars>>

Spec == Init /\ [][Next]_vars

----------------------------------------------------------------------------
(* The valuators and index_compiler *)

Tickers == {"A", "B"}

\* the column sets of the price table tried: the second ticker may be absent
ColumnSets == {{"A"}, {"A", "B"}}

PriceSet == {R(1), R(2)}

\* the weights tried: 0, 0.3, 0.5 and 1
RawWeights == {R(0), <<3, 10>>, <<1, 2>>, R(1)}

\* the weight maps tried, the empty map <<>> among them
WeightMaps == UNION {[K -> RawWeights] : K \in SUBSET Tickers}

RECURSIVE SumOver(_, _)
\* sum(f[s] for s in S)
SumOver(S, f) ==
    IF S = {} THEN R(0)
    ELSE LET s == CHOOSE x \in S : TRUE
         IN  RAdd(f[s], SumOver(S \ {s}, f))

NormalizedWeights_OnlyAboveOne(w) ==
    LET total_weight == SumOver(DOMAIN w, w)
    IN  IF RGt(total_weight, R(1))
          THEN [ticker \in DOMAIN w |-> RDiv(w[ticker], total_weight)]
          ELSE w

\* index_compiler: weights that do not sum to 1 are divided by their sum
\* (numpy floats: 0.0 / 0.0 is nan)
NormalizedWeights(w) ==
    LET total_weight == SumOver(DOMAIN w, w)
    IN  IF total_weight # R(1)
          THEN [ticker \in DOMAIN w |-> RDiv(w[ticker], total_weight)]
          ELSE w

InitialInvestmentPerStock(w, cols, investment) ==
    [stock \in (DOMAIN w) \cap cols |-> RMul(investment, w[stock])]

InitialShares_LastPrice(per_stock, table) ==
    [stock \in DOMAIN per_stock |-> RDiv(per_stock[stock], table[Len(table)][stock])]

\* shares bought at the first date's prices
InitialShares(per_stock, table) ==
    [stock \in DOMAIN per_stock |-> RDiv(per_stock[stock], At(table, 0)[stock])]

\* sum(prices[stock] * shares[stock] for stock in shares)
PortfolioValue(row, sh) ==
    SumOver(DOMAIN sh, [stock \in DOMAIN sh |-> RMul(row[stock], sh[stock])])

\* the value of a date without rebalancing
DriftValue(row, per_stock, table) ==
    SumOver(DOMAIN per_stock,
            [stock \in DOMAIN per_stock |->
                RMul(row[stock], RDiv(per_stock[stock], At(table, 0)[stock]))])

RebalanceDue_ZeroIsEveryDay(idx, frequency) ==
    idx # 0 /\ (frequency = 0 \/ idx % frequency = 0)

RebalanceDue(idx, frequency) ==
    frequency > 0 /\ idx % frequency = 0 /\ idx # 0

NewInvestmentPerStock_Unweighted(value, w) ==
    [stock \in DOMAIN w |-> value]

NewInvestmentPerStock(value, w) ==
    [stock \in DOMAIN w |-> RMul(value, w[stock])]

\* prices[stock] raises KeyError for a stock that is no column
LookupFails(new_investment, row) == ~(DOMAIN new_investment \subseteq DOMAIN row)

RebalancedShares(new_investment, row) ==
    [stock \in DOMAIN new_investment |-> RDiv(new_investment[stock], row[stock])]

\* the inputs of a valuation
ValuatorsInit ==
    /\ initial_investment \in Investments
    /\ columns \in ColumnSets
    /\ \E T \in 1..MaxDates : prices_df \in [1..T -> [columns -> PriceSet]]
    /\ weights_dict \in WeightMaps
    /\ rebalance_frequency \in 0..MaxFreq
    /\ weights = <<>>
    /\ vpc = "compile"
    /\ vi = 0
    /\ shares = <<>>
    /\ portfolio_values = <<>>
    /\ rebal_result = "running"
    /\ looked_up = {}
    /\ portfolio_values_nr = <<>>

\* index_compiler, line 117, on a non-empty weight map of Python floats that
\* sum to 0: weight / total_weight raises ZeroDivisionError
IndexCompilerZeroDivision ==
    /\ vpc = "compile"
    /\ DOMAIN weights_dict # {}
    /\ SumOver(DOMAIN weights_dict, weights_dict) = R(0)
    /\ vpc' = "ZeroDivisionError"
    /\ UNCHANGED <<prices_df, columns, weights_dict, weights, rebalance_frequency,
                   vi, shares, portfolio_values, rebal_result, looked_up,
                   portfolio_values_nr, initial_investment>>

\* index_compiler, lines 114-122, with rebalance=False: normalize, then call
\* calculate_portfolio_value_no_rebalancing
IndexCompilerNoRebalance ==
    /\ vpc = "compile"
    /\ weights' = NormalizedWeights(weights_dict)
    /\ vpc' = "norebal"
    /\ vi' = 0
    /\ portfolio_values_nr' = <<>>
    /\ UNCHANGED <<prices_df, columns, weights_dict, rebalance_frequency, shares,
                   portfolio_values, rebal_result, looked_up, initial_investment>>

\* lines 35-37: one date of the loop without rebalancing
NoRebalancingIteration ==
    /\ vpc = "norebal"
    /\ vi < Len(prices_df)
    /\ LET per_stock == InitialInvestmentPerStock(weights, columns, initial_investment)
       IN  portfolio_values_nr' =
               Append(portfolio_values_nr,
                      DriftValue(At(prices_df, vi), per_stock, prices_df))
    /\ vi' = vi + 1
    /\ UNCHANGED <<prices_df, columns, weights_dict, weights, rebalance_frequency,
                   vpc, shares, portfolio_values, rebal_result, looked_up,
                   initial_investment>>

\* line 39, then index_compiler with rebalance=True on the same inputs:
\* normalize and enter calculate_portfolio_value_with_rebalancing (lines 55-59)
IndexCompilerRebalance ==
    /\ vpc = "norebal"
    /\ vi >= Len(prices_df)
    /\ weights' = NormalizedWeights(weights_dict)
    /\ shares' = InitialShares(
           InitialInvestmentPerStock(weights', columns, initial_investment), prices_df)
    /\ portfolio_values' = <<>>
    /\ vi' = 0
    /\ vpc' = "rebal"
    /\ UNCHANGED <<prices_df, columns, weights_dict, rebalance_frequency,
                   rebal_result, looked_up, portfolio_values_nr, initial_investment>>

\* lines 61-70: one date of the loop with rebalancing
RebalancingIteration ==
    /\ vpc = "rebal"
    /\ vi < Len(prices_df)
    /\ LET prices          == At(prices_df, vi)
           portfolio_value == PortfolioValue(prices, shares)
           new_investment  == NewInvestmentPerStock(portfolio_value, weights)
       IN  /\ portfolio_values' = Append(portfolio_values, portfolio_value)
           /\ IF RebalanceDue(vi, rebalance_frequency)
                THEN /\ looked_up' = looked_up \cup DOMAIN new_investment
                     /\ IF LookupFails(new_investment, prices)
                          THEN /\ rebal_result' = "KeyError"
                               /\ vpc' = "done"
                               /\ UNCHANGED shares
                          ELSE /\ shares' = RebalancedShares(new_investment, prices)
                               /\ UNCHANGED <<rebal_result, vpc>>
                ELSE UNCHANGED <<looked_up, rebal_result, vpc, shares>>
    /\ vi' = vi + 1
    /\ UNCHANGED <<prices_df, columns, weights_dict, weights, rebalance_frequency,
                   portfolio_values_nr, initial_investment>>

\* line 72
RebalancingReturn ==
    /\ vpc = "rebal"
    /\ vi >= Len(prices_df)
    /\ rebal_result' = "returned"
    /\ vpc' = "done"
    /\ UNCHANGED <<prices_df, columns, weights_dict, weights, rebalance_frequency,
                   vi, shares, portfolio_values, looked_up, portfolio_values_nr,
                   initial_investment>>

\* track_trades is not running
TrackTradesIdle ==
    /\ df = <<>>
    /\ df_columns = {}
    /\ n = 0
    /\ pc = "idle"
    /\ TrackTradesNotCalled

InitVal == ValuatorsInit /\ TrackTradesIdle /\ EstimatorIdle

NextVal ==
    \/ IndexCompilerZeroDivision /\ UNCHANGED <<simvars, estvars>>
    \/ IndexCompilerNoRebalance /\ UNCHANGED <<simvars, estvars>>
    \/ NoRebalancingIteration /\ UNCHANGED <<simvars, estvars>>
    \/ IndexCompilerRebalance /\ UNCHANGED <<simvars, estvars>>
    \/ RebalancingIteration /\ UNCHANGED <<simvars, estvars>>
    \/ RebalancingReturn /\ UNCHANGED <<simvars, estvars>>

SpecVal == InitVal /\ [][NextVal]_vars

----------------------------------------------------------------------------
(* The pipeline of the script: index_compiler (valuation, then bands), then
   track_trades on the table of bands *)

\* the closing prices and the weights tried in the pipeline, on one ticker
PipelinePrices == {R(1), R(5), R(6)}

PipelineWeights == UNION {[K -> {R(0), R(1)}] : K \in SUBSET {"A"}}

\* the arguments of index_compiler
PipelineInit ==
    /\ initial_investment = R(1000)    \* lines 222 and 405
    /\ columns = {"A"}
    /\ \E T \in 1..MaxPipelineDates :
           prices_df \in [1..T -> [columns -> PipelinePrices]]
    /\ weights_dict \in PipelineWeights
    /\ rebalance_frequency \in {0, 1}
    /\ halflife_days \in Halflives
    /\ weights = <<>>
    /\ vpc = "compile"
    /\ vi = 0
    /\ shares = <<>>
    /\ portfolio_values = <<>>
    /\ rebal_result = "running"
    /\ looked_up = {}
    /\ portfolio_values_nr = <<>>
    /\ bands_df = <<>>

\* index_compiler, lines 119-125: the series of the valuator chosen by
\* `rebalance` goes to add_ewma_bollinger_bands, and the table is returned
IndexCompilerBands ==
    /\ vpc = "done"
    /\ rebal_result = "returned"
    /\ \E rebalance \in BOOLEAN :
           bands_df' \in BandTables(
               IF rebalance THEN portfolio_values ELSE portfolio_values_nr,
               halflife_days)
    /\ vpc' = "returned"
    /\ UNCHANGED <<prices_df, columns, weights_dict, weights, rebalance_frequency,
                   vi, shares, portfolio_values, rebal_result, looked_up,
                   portfolio_values_nr, halflife_days, initial_investment>>

\* line 405: track_trades(data[0][0], initial_investment=1000) on that table
ScriptCallsTrackTrades ==
    /\ vpc = "returned"
    /\ pc = "idle"
    /\ df' = <<At(bands_df, 0)>>
    /\ df_columns' = InputColumns
    /\ n' = Len(bands_df)
    /\ pc' = "call"
    /\ UNCHANGED <<i, current_position, entry_price, units_traded,
                   realized_balance, unrealized_pnl, trades_tally, trade_logs,
                   total_trade_pnl, position, still_open_printed,
                   initial_investment>>

\* an iteration of track_trades on the row of index i of the table of bands
TrackTradesOnBands ==
    /\ pc = "loop"
    /\ i < n
    /\ bands_df # <<>>
    /\ TrackTradesStep(At(bands_df, i))

InitPipeline == PipelineInit /\ TrackTradesIdle

NextPipeline ==
    \/ IndexCompilerZeroDivision /\ UNCHANGED <<simvars, estvars>>
    \/ IndexCompilerNoRebalance /\ UNCHANGED <<simvars, estvars>>
    \/ NoRebalancingIteration /\ UNCHANGED <<simvars, estvars>>
    \/ IndexCompilerRebalance /\ UNCHANGED <<simvars, estvars>>
    \/ RebalancingIteration /\ UNCHANGED <<simvars, estvars>>
    \/ RebalancingReturn /\ UNCHANGED <<simvars, estvars>>
    \/ IndexCompilerBands /\ UNCHANGED simvars
    \/ ScriptCallsTrackTrades /\ UNCHANGED <<valvars, estvars>>
    \/ TrackTradesCall /\ UNCHANGED <<valvars, estvars>>
    \/ TrackTradesOnBands /\ UNCHANGED <<valvars, estvars>>
    \/ TrackTradesReturn /\ UNCHANGED <<valvars, estvars>>

SpecPipeline == InitPipeline /\ [][NextPipeline]_vars

----------------------------------------------------------------------------
(* Claims about track_trades *)

EntryEvents == {"short_entry", "long_entry"}

ExitEvents == {"short_exit", "long_exit"}

\* the record appended by the latest iteration
LastRecord == trade_logs[Len(trade_logs)]

\* the row read by the latest iteration
LastRow == df[Len(df)]

\* an iteration of the loop has just run
Stepped == Len(trade_logs) >= 1 /\ trade_logs' # trade_logs

IsEvent(rec) == rec.type # "neither"

\* the entry and exit records of the log, in order
EventRecords == SelectSeq(trade_logs, IsEvent)

ExitOf(entry) == IF entry = "short_entry" THEN "short_exit" ELSE "long_exit"

LogAlternates ==
    \A k \in 1..Len(EventRecords) :
        IF k % 2 = 1 THEN EventRecords[k].type \in EntryEvents
        ELSE EventRecords[k].type = ExitOf(EventRecords[k - 1].type)

\* C1: the position is always one of None (flat), long, short; an entry is
\* emitted only by a step that starts flat, a short exit only by a step that
\* starts short, a long exit only by a step that starts long; so the events
\* of the log alternate entry, exit, entry, ... and each exit has the side of
\* the entry before it.
C1_SinglePosition ==
    /\ [](current_position \in {"None", "long", "short"} /\ LogAlternates)
    /\ [][Stepped =>
            /\ LastRecord'.type \in EntryEvents => current_position = "None"
            /\ LastRecord'.type = "short_exit" => current_position = "short"
            /\ LastRecord'.type = "long_exit" => current_position = "long"]_vars

\* a log holding an entry, its exit, a second entry and its exit
C1_Witness ==
    /\ Len(EventRecords) = 4
    /\ EventRecords[1].type # EventRecords[3].type

\* C2 (as claimed): on a row whose bands are undefined the iteration emits
\* "neither" and leaves position, entry price, units, realized balance and
\* tally as they were, whatever the position.
C2_UndefinedBandsFreeze ==
    [][(Stepped /\ IsNaN(LastRow'.bollinger_upper) /\ IsNaN(LastRow'.bollinger_lower)) =>
          /\ LastRecord'.type = "neither"
          /\ UNCHANGED <<current_position, entry_price, units_traded,
                         realized_balance, trades_tally>>]_vars

\* C3 (as claimed): a run that ends with a position open does not close it
\* and reports the position as still open; a run that ends flat reports
\* nothing.
C3_OpenPositionReported ==
    pc = "done" =>
        /\ LastRecord.type \in ExitEvents => current_position = "None"
        /\ still_open_printed <=> current_position \in {"long", "short"}

NumExits == Cardinality({k \in 1..Len(trade_logs) : trade_logs[k].type \in ExitEvents})

\* C4: trades_tally is the number of exit records in the log; it starts at 0,
\* grows by one on an exit step, is unchanged by any other step, and never
\* decreases.
C4_TallyCountsExits ==
    /\ [](trades_tally = NumExits /\ (Len(trade_logs) = 1 => trades_tally = 0))
    /\ [][/\ trades_tally' >= trades_tally
          /\ Stepped => trades_tally' =
                IF LastRecord'.type \in ExitEvents THEN trades_tally + 1
                ELSE trades_tally]_vars

\* two completed trades
C4_Witness == trades_tally = 2 /\ NumExits = 2

Prices(rows) == [k \in 1..Len(rows) |-> rows[k].portfolio_value]

Types(log) == [k \in 1..Len(log) |-> log[k].type]

\* the run of the scenario: prices 100, 160, 95, 130, the upper band breached
\* at index 1, the price below the ewma at index 2, no breach at index 3
ScenarioRun ==
    /\ pc = "done"
    /\ Prices(df) = <<R(100), R(160), R(95), R(130)>>
    /\ RGt(df[2].portfolio_value, df[2].bollinger_upper)
    /\ RLt(df[3].portfolio_value, df[3].ewma)
    /\ ~RGt(df[4].portfolio_value, df[4].bollinger_upper)
    /\ ~RLt(df[4].portfolio_value, df[4].bollinger_lower)

\* C5: an entry from flat (short above the upper band, else long below the
\* lower band) sets entry_price to the price and units_traded to
\* realized_balance / entry_price; the matching exit (short: price < ewma,
\* long: price > ewma) adds units_traded * (entry_price - price) for a short,
\* units_traded * (price - entry_price) for a long, to realized_balance,
\* adds one to the tally and returns to flat.  On the scenario the log is
\* neither, short_entry, short_exit, neither, the tally 1 and the balance
\* initial_investment + (initial_investment / 160) * 65.
C5_RoundTrip ==
    /\ [][Stepped =>
            LET price == LastRow'.portfolio_value
                short == current_position = "None" /\ RGt(price, LastRow'.bollinger_upper)
                long  == current_position = "None" /\ ~short
                            /\ RLt(price, LastRow'.bollinger_lower)
                shortX == current_position = "short" /\ RLt(price, LastRow'.ewma)
                longX  == current_position = "long" /\ RGt(price, LastRow'.ewma)
            IN  /\ short => /\ LastRecord'.type = "short_entry"
                            /\ current_position' = "short"
                /\ long => /\ LastRecord'.type = "long_entry"
                           /\ current_position' = "long"
                /\ (short \/ long) =>
                       /\ entry_price' = price
                       /\ units_traded' = RDiv(realized_balance, price)
                       /\ realized_balance' = realized_balance
                /\ shortX =>
                       /\ LastRecord'.type = "short_exit"
                       /\ realized_balance' = RAdd(realized_balance,
                              RMul(units_traded, RSub(entry_price, price)))
                /\ longX =>
                       /\ LastRecord'.type = "long_exit"
                       /\ realized_balance' = RAdd(realized_balance,
                              RMul(units_traded, RSub(price, entry_price)))
                /\ (shortX \/ longX) =>
                       /\ trades_tally' = trades_tally + 1
                       /\ current_position' = "None"]_vars
    /\ [](ScenarioRun =>
            /\ Types(trade_logs) = <<"neither", "short_entry", "short_exit", "neither">>
            /\ trades_tally = 1
            /\ realized_balance = RAdd(initial_investment,
                   RMul(RDiv(initial_investment, R(160)), R(65))))

\* the scenario has run to its end
C5_Witness == ScenarioRun /\ trades_tally = 1 /\ RGt(realized_balance, initial_investment)

\* C6: the snapshot of an entry or exit record is the realized balance right
\* after that step; the snapshot of a "neither" record is the realized
\* balance plus the unrealized PnL of the open position at that row's price
\* (0 when flat).
C6_Snapshots ==
    /\ [](Len(trade_logs) = 1 => LastRecord.pnl = initial_investment)
    /\ [][Stepped =>
            LET price == LastRow'.portfolio_value
                open  == IF current_position = "short"
                           THEN RDiv(RMul(realized_balance, RSub(entry_price, price)),
                                     entry_price)
                         ELSE IF current_position = "long"
                           THEN RDiv(RMul(realized_balance, RSub(price, entry_price)),
                                     entry_price)
                         ELSE R(0)
            IN  IF IsEvent(LastRecord')
                  THEN LastRecord'.pnl = realized_balance'
                  ELSE LastRecord'.pnl = RAdd(realized_balance, open)]_vars

\* a "neither" record taken with a position open and a nonzero unrealized PnL
C6_Witness ==
    /\ Len(trade_logs) > 1
    /\ LastRecord.type = "neither"
    /\ current_position \in {"long", "short"}
    /\ LastRecord.pnl # realized_balance
    /\ \E k \in 1..Len(trade_logs) : trade_logs[k].type \in ExitEvents

----------------------------------------------------------------------------
(* Claims about the valuators *)

\* an instrument of the weight map is no column of the price table
HasAbsentInstrument == ~(DOMAIN weights_dict \subseteq columns)

\* the weight map in use sums to 1
WeightsNormalized == vpc # "compile" /\ SumOver(DOMAIN weights, weights) = R(1)

\* every instrument has the same price on all dates
ConstantPrices == \A k \in 1..Len(prices_df) : prices_df[k] = prices_df[1]

AllEqualTo(values, v) == \A k \in 1..Len(values) : values[k] = v

\* C7 (as claimed): with an instrument of the weight map absent from the price
\* table and a frequency >= 1, no rebalance looks up the absent instrument, no
\* lookup fails, and the valuator returns a value for every date.
C7_AbsentInstrumentExcluded ==
    (HasAbsentInstrument /\ rebalance_frequency >= 1
        /\ RGt(SumOver(DOMAIN weights_dict, weights_dict), R(0))) =>
        /\ looked_up \subseteq columns
        /\ rebal_result # "KeyError"
        /\ vpc = "done" => /\ rebal_result = "returned"
                           /\ Len(portfolio_values) = Len(prices_df)

\* C8: with rebalance_frequency = 0 the rebalancing valuator returns, index by
\* index, the series the no-rebalancing valuator returns on the same inputs.
C8_FrequencyZeroIsNoRebalance ==
    (vpc = "done" /\ rebalance_frequency = 0) =>
        /\ rebal_result = "returned"
        /\ Len(portfolio_values) = Len(prices_df)
        /\ portfolio_values = portfolio_values_nr

\* frequency 0 on two instruments whose prices move, over all the dates
C8_Witness ==
    /\ vpc = "done"
    /\ rebalance_frequency = 0
    /\ Len(prices_df) = MaxDates
    /\ DOMAIN weights = {"A", "B"}
    /\ columns = {"A", "B"}
    /\ Len(portfolio_values) = MaxDates
    /\ portfolio_values[2] # portfolio_values[1]

\* every value appended so far, by either valuator, is the initial investment
ValuesAreInvestment ==
    /\ AllEqualTo(portfolio_values_nr, initial_investment)
    /\ AllEqualTo(portfolio_values, initial_investment)
    /\ rebal_result # "KeyError"
    /\ vpc = "done" => /\ Len(portfolio_values) = Len(prices_df)
                       /\ Len(portfolio_values_nr) = Len(prices_df)

\* C9 (as claimed): with constant prices and any normalized weight map, every
\* value is the initial investment, without rebalancing and with any
\* frequency >= 1.
C9_ConstantPricesAnyWeights ==
    (ConstantPrices /\ WeightsNormalized) => ValuesAreInvestment

\* C9 (amended): the same, for a normalized weight map whose instruments are
\* all columns of the price table.
C9_ConstantPrices ==
    (ConstantPrices /\ WeightsNormalized /\ ~HasAbsentInstrument) => ValuesAreInvestment

\* constant prices, differing between two weighted instruments, rebalanced
\* at every date after the first
C9_Witness ==
    /\ vpc = "done"
    /\ ConstantPrices
    /\ rebalance_frequency = 1
    /\ DOMAIN weights = {"A", "B"}
    /\ weights["A"] # weights["B"]
    /\ columns = {"A", "B"}
    /\ prices_df[1]["A"] # prices_df[1]["B"]
    /\ Len(portfolio_values) = MaxDates
    /\ Len(portfolio_values_nr) = MaxDates

\* the initial allocation is fully invested at the first date
FullyInvestedAtFirstDate ==
    /\ Len(portfolio_values_nr) >= 1 => portfolio_values_nr[1] = initial_investment
    /\ Len(portfolio_values) >= 1 => portfolio_values[1] = initial_investment
    /\ (vpc = "rebal" /\ vi = 0) =>
           SumOver(DOMAIN shares,
                   [stock \in DOMAIN shares |->
                       RMul(shares[stock], prices_df[1][stock])]) = initial_investment

\* C10 (as claimed): for any normalized weight map the initial shares, priced
\* at the first date, sum to the initial investment: value[0] is the initial
\* investment under both policies.
C10_FullyInvestedAnyWeights == WeightsNormalized => FullyInvestedAtFirstDate

\* C10 (amended): the same, for a normalized weight map whose instruments are
\* all columns of the price table.
C10_FullyInvested ==
    (WeightsNormalized /\ ~HasAbsentInstrument) => FullyInvestedAtFirstDate

\* two instruments with different first prices and weights, moving prices,
\* value[0] recorded by both valuators
C10_Witness ==
    /\ vpc = "done"
    /\ DOMAIN weights = {"A", "B"}
    /\ weights["A"] # weights["B"]
    /\ columns = {"A", "B"}
    /\ Len(prices_df) >= 2
    /\ prices_df[1]["A"] # prices_df[1]["B"]
    /\ prices_df[2] # prices_df[1]
    /\ Len(portfolio_values) >= 2
    /\ Len(portfolio_values_nr) >= 2
    /\ portfolio_values[2] # initial_investment

TotalWeight == SumOver(DOMAIN weights_dict, weights_dict)

\* index_compiler has handed its weight map to a valuator
Valuating == vpc \in {"norebal", "rebal", "done"}

\* C11: for a weight map with a positive sum the weights used by the
\* valuators sum to exactly 1; a map whose sum is not 1 has every weight
\* multiplied by 1/sum ({A: 0.5, B: 0.3} becomes {A: 0.625, B: 0.375}); a map
\* whose sum is 1 is used unchanged.
C11_WeightsNormalized ==
    (Valuating /\ RGt(TotalWeight, R(0))) =>
        /\ DOMAIN weights = DOMAIN weights_dict
        /\ SumOver(DOMAIN weights, weights) = R(1)
        /\ TotalWeight # R(1) =>
               \A ticker \in DOMAIN weights :
                   weights[ticker] =
                       RMul(weights_dict[ticker], RDiv(R(1), TotalWeight))
        /\ TotalWeight = R(1) => weights = weights_dict
        /\ weights_dict = [ticker \in {"A", "B"} |->
                              IF ticker = "A" THEN <<1, 2>> ELSE <<3, 10>>]
               => weights = [ticker \in {"A", "B"} |->
                                IF ticker = "A" THEN <<5, 8>> ELSE <<3, 8>>]

\* the map {A: 0.5, B: 0.3} has been normalized and valued
C11_Witness ==
    /\ vpc = "done"
    /\ DOMAIN weights_dict = {"A", "B"}
    /\ weights_dict["A"] = <<1, 2>>
    /\ weights_dict["B"] = <<3, 10>>
    /\ weights["A"] = <<5, 8>>
    /\ rebal_result = "returned"

\* C12 (as claimed): a price table of fewer than 2 rows (with a weight map of
\* positive sum over its columns) ends in an error and no value series is
\* returned.
C12_InsufficientDataRejected ==
    (Len(prices_df) < 2 /\ RGt(TotalWeight, R(0)) /\ ~HasAbsentInstrument) =>
        /\ portfolio_values = <<>>
        /\ portfolio_values_nr = <<>>
        /\ rebal_result # "returned"
        /\ vpc \notin {"rebal", "done"}

\* C13 (as claimed): an empty weight map, or one whose weights sum to zero or
\* less, ends in an error before any valuation: no valuator runs on it.
C13_InvalidWeightsRejected ==
    (DOMAIN weights_dict = {} \/ ~RGt(TotalWeight, R(0))) =>
        /\ ~Valuating
        /\ portfolio_values = <<>>
        /\ portfolio_values_nr = <<>>

----------------------------------------------------------------------------
(* Further claims about track_trades *)

EventTypes == {"neither", "long_entry", "long_exit", "short_entry", "short_exit"}

\* C17: the log holds exactly one record per date, in date order, each with
\* its date, that date's price and one event type; record 0 is a "neither"
\* record whose snapshot is the initial investment, and no transition is
\* evaluated at index 0 whatever the price and bands there; a record once
\* appended is never changed.
C17_OneRecordPerDate ==
    /\ [](pc \in {"loop", "done"} =>
            /\ Len(trade_logs) = Len(df)
            /\ Len(trade_logs) = i
            /\ pc = "done" => Len(trade_logs) = n
            /\ \A k \in 1..Len(trade_logs) :
                   /\ trade_logs[k].date = k - 1
                   /\ trade_logs[k].price = df[k].portfolio_value
                   /\ trade_logs[k].type \in EventTypes
            /\ trade_logs[1].type = "neither"
            /\ trade_logs[1].pnl = initial_investment
            /\ i = 1 => /\ current_position = "None"
                        /\ trades_tally = 0
                        /\ realized_balance = initial_investment)
    /\ [][\A k \in 1..Len(trade_logs) : trade_logs'[k] = trade_logs[k]]_vars

\* the longest run, on a table whose first row breaches its upper band, with a
\* trade entered later
C17_Witness ==
    /\ pc = "done"
    /\ n = MaxLen
    /\ RGt(df[1].portfolio_value, df[1].bollinger_upper)
    /\ Len(trade_logs) = MaxLen
    /\ trade_logs[2].type = "short_entry"

\* C18 (as claimed): track_trades leaves the table it is handed as it was:
\* the same columns after the call as before it.
C18_InputTableUnchanged ==
    pc \in {"call", "loop", "done"} => df_columns = InputColumns

\* C20: realized_balance changes only on an exit step; an entry step leaves
\* realized_balance and trades_tally unchanged; a "neither" step leaves the
\* position, entry_price, units_traded, realized_balance and trades_tally
\* unchanged.
C20_StepFrame ==
    [][Stepped =>
         /\ realized_balance' # realized_balance => LastRecord'.type \in ExitEvents
         /\ LastRecord'.type \in EntryEvents =>
                UNCHANGED <<realized_balance, trades_tally>>
         /\ LastRecord'.type = "neither" =>
                UNCHANGED <<current_position, entry_price, units_traded,
                            realized_balance, trades_tally>>]_vars

\* a "neither" step taken with a position open, after a completed trade that
\* changed the balance
C20_Witness ==
    /\ Len(trade_logs) > 1
    /\ LastRecord.type = "neither"
    /\ current_position \in {"long", "short"}
    /\ trades_tally >= 1
    /\ realized_balance # initial_investment
    /\ entry_price # LastRecord.price

\* C21: while a position is open units_traded is bound and equals
\* realized_balance / entry_price; so at a step taken with a position open
\* the unrealized PnL, realized_balance * (signed price move) / entry_price,
\* equals units_traded * (signed price move), the PnL an exit at that price
\* realizes; and the snapshot of an exit record is the carried total (the
\* realized balance) plus the unrealized PnL computed for that date.
C21_UnitsMatchBalance ==
    /\ [](current_position \in {"long", "short"} =>
              /\ ~IsNaN(units_traded)
              /\ units_traded = RDiv(realized_balance, entry_price))
    /\ [][(Stepped /\ current_position \in {"long", "short"}) =>
            LET price == LastRow'.portfolio_value
                move  == IF current_position = "short"
                           THEN RSub(entry_price, price)
                           ELSE RSub(price, entry_price)
            IN  /\ unrealized_pnl' = RDiv(RMul(realized_balance, move), entry_price)
                /\ unrealized_pnl' = RMul(units_traded, move)
                /\ LastRecord'.type \in ExitEvents =>
                       /\ realized_balance' =
                              RAdd(realized_balance, RMul(units_traded, move))
                       /\ LastRecord'.pnl = RAdd(realized_balance, unrealized_pnl')
                       /\ LastRecord'.pnl =
                              RAdd(At(total_trade_pnl, i - 1), unrealized_pnl')]_vars

\* an exit with a PnL other than 0, of a second trade (entered on a balance
\* other than the initial investment)
C21_Witness ==
    /\ Len(trade_logs) >= 5
    /\ LastRecord.type \in ExitEvents
    /\ trades_tally = 2
    /\ unrealized_pnl # R(0)
    /\ units_traded # RDiv(initial_investment, entry_price)

----------------------------------------------------------------------------
(* Further claims about the valuators *)

\* C19 (as claimed): with a frequency f >= 1 the share set is recomputed at
\* exactly the indices i > 0 with i mod f = 0 and kept at every other index;
\* the new shares are value[i] * weight / price[i] over the original target
\* weights (of positive sum), value[i] being computed with the shares active
\* before.
C19_RebalanceSchedule ==
    [][(vpc = "rebal" /\ vi' = vi + 1 /\ rebalance_frequency >= 1
          /\ RGt(TotalWeight, R(0))) =>
          LET prices == prices_df[vi + 1]
              value  == portfolio_values'[vi + 1]
          IN  /\ value = SumOver(DOMAIN shares,
                                 [instr \in DOMAIN shares |->
                                     RMul(shares[instr], prices[instr])])
              /\ IF vi > 0 /\ vi % rebalance_frequency = 0
                   THEN /\ rebal_result' # "KeyError"
                        /\ shares' = [instr \in DOMAIN weights |->
                                         RDiv(RMul(value, weights[instr]),
                                              prices[instr])]
                   ELSE shares' = shares]_vars

----------------------------------------------------------------------------
(* Claims about add_ewma_bollinger_bands *)

\* index_compiler has just returned the table of bands (which nothing
\* changes afterwards)
Estimated == vpc = "returned" /\ pc = "idle"

\* the value series the table was computed from
EstimatedValues == [k \in 1..Len(bands_df) |-> bands_df[k].portfolio_value]

\* the series is one of numbers (the valuators return NaN values on weights
\* that sum to 0)
ValuesDefined == \A k \in 1..Len(bands_df) : ~IsNaN(EstimatedValues[k])

\* the rolling standard deviation at index t (one value, or its bound)
StdAt(t) == StdBounds(EstimatedValues, t, halflife_days)

StdDefinedAt(t) == \A sd \in StdAt(t) : ~IsNaN(sd)

\* the bands of the row of index t are defined exactly when the deviation
\* is, and then lie twice the deviation above and below the mean
BandsFollowStd(t) ==
    LET row == At(bands_df, t)
    IN  /\ ~IsNaN(row.bollinger_upper) <=> StdDefinedAt(t)
        /\ ~IsNaN(row.bollinger_lower) <=> StdDefinedAt(t)
        /\ StdDefinedAt(t) =>
               \E sd \in StdAt(t) :
                   /\ RSub(row.bollinger_upper, row.ewma) = RMul(R(2), sd)
                   /\ RSub(row.ewma, row.bollinger_lower) = RMul(R(2), sd)

\* C14 (as claimed): for every halflife >= 1 and every series of numbers the
\* rolling standard deviation is defined at exactly the indices t >= halflife - 1, and the bands are
\* defined at exactly the same indices, as ewma + 2 std and ewma - 2 std.
C14_StdDefinedFromWindow ==
    (Estimated /\ ValuesDefined) =>
        \A t \in 0..(Len(bands_df) - 1) :
            /\ StdDefinedAt(t) <=> t >= halflife_days - 1
            /\ BandsFollowStd(t)

\* C14 (amended): on every series of numbers, for a halflife >= 2 the
\* rolling standard deviation is defined at exactly the indices t >= halflife - 1; for a halflife of 1 it
\* is the sample deviation of one value, undefined at every index.  The
\* bands are defined at exactly the indices where the deviation is, as
\* ewma + 2 std and ewma - 2 std.
C14_StdDefinedFromFullWindow ==
    (Estimated /\ ValuesDefined) =>
        \A t \in 0..(Len(bands_df) - 1) :
            /\ StdDefinedAt(t) <=> (halflife_days >= 2 /\ t >= halflife_days - 1)
            /\ BandsFollowStd(t)

\* a table of three rows or more for a halflife of 2: no deviation at index
\* 0, a deviation other than 0 at index 1
C14_Witness ==
    /\ Estimated
    /\ halflife_days = 2
    /\ Len(bands_df) >= 3
    /\ IsNaN(At(bands_df, 0).bollinger_upper)
    /\ RGt(At(bands_df, 1).bollinger_upper, At(bands_df, 1).ewma)

RECURSIVE RPow(_, _)
RPow(x, k) == IF k = 0 THEN R(1) ELSE RMul(x, RPow(x, k - 1))

\* the ewma column of the table
EstimatedEwma(t) == At(bands_df, t).ewma

\* C15 (as claimed): ewma[0] = value[0] and, for t >= 1,
\* ewma[t] = a * value[t] + (1 - a) * ewma[t-1], where (1 - a)^halflife = 0.5.
C15_PlainRecursion ==
    (Estimated /\ ValuesDefined /\ halflife_days \in ExactHalflives) =>
        LET a == Alpha(halflife_days)
        IN  /\ RPow(RSub(R(1), a), halflife_days) = <<1, 2>>
            /\ EstimatedEwma(0) = At(EstimatedValues, 0)
            /\ \A t \in 1..(Len(bands_df) - 1) :
                   EstimatedEwma(t) =
                       RAdd(RMul(a, At(EstimatedValues, t)),
                            RMul(RSub(R(1), a), EstimatedEwma(t - 1)))

\* the average of value[0..t] in which value[t - k] has the weight decay^k
WeightedAverage(values, decay, t) ==
    RDiv(SumSeq([k \in 1..(t + 1) |-> RMul(RPow(decay, k - 1), At(values, t + 1 - k))]),
         SumSeq([k \in 1..(t + 1) |-> RPow(decay, k - 1)]))

\* C15 (amended): ewma[0] = value[0] and, for every t, ewma[t] is the
\* weighted average of value[0..t] in which value[t-k] has the weight
\* (1 - a)^k, the weights being normalized by their sum:
\* ewma[t] = sum_k (1 - a)^k value[t-k] / sum_k (1 - a)^k, where
\* (1 - a)^halflife = 0.5.
C15_WeightedAverage ==
    (Estimated /\ ValuesDefined /\ halflife_days \in ExactHalflives) =>
        LET a == Alpha(halflife_days)
        IN  /\ RPow(RSub(R(1), a), halflife_days) = <<1, 2>>
            /\ EstimatedEwma(0) = At(EstimatedValues, 0)
            /\ \A t \in 0..(Len(bands_df) - 1) :
                   EstimatedEwma(t) =
                       WeightedAverage(EstimatedValues, RSub(R(1), a), t)

\* a table for a halflife of 2 whose values differ: the mean at index 2 is
\* irrational and is none of the values
C15_Witness ==
    /\ Estimated
    /\ halflife_days = 2
    /\ Len(bands_df) >= 3
    /\ Len(EstimatedEwma(2)) = 3
    /\ At(EstimatedValues, 1) # At(EstimatedValues, 0)

----------------------------------------------------------------------------
(* Claims about the pipeline *)

\* C16: in the pipeline no entry or exit is recorded at an index before
\* halflife - 1 and the position is flat through those indices; the loop of
\* track_trades always finds the row it reads; and a run on a series shorter
\* than the halflife ends with a log of one "neither" record per date and a
\* tally of 0.
C16_NoTradeBeforeWindowFills ==
    /\ \A k \in 1..Len(trade_logs) :
           trade_logs[k].date < halflife_days - 1 =>
               /\ trade_logs[k].type = "neither"
               /\ position[k] = "None"
    /\ (pc = "loop" /\ i <= halflife_days - 1) => current_position = "None"
    /\ (pc = "loop" /\ i < n) => i < Len(bands_df)
    /\ (pc = "done" /\ n < halflife_days) =>
           /\ Len(trade_logs) = n
           /\ \A k \in 1..n : trade_logs[k].type = "neither"
           /\ trades_tally = 0
           /\ current_position = "None"

\* a run for a halflife of 3: the price of index 1 differs from the mean but
\* the bands are not defined and nothing is recorded; an entry is recorded
\* once the window is full
C16_Witness ==
    /\ pc = "done"
    /\ halflife_days = 3
    /\ Len(trade_logs) = 4
    /\ df[2].portfolio_value # df[2].ewma
    /\ IsNaN(df[2].bollinger_upper)
    /\ trade_logs[2].type = "neither"
    /\ trade_logs[4].type \in EntryEvents

====
